---- MODULE Spec2Model ----
(***************************************************************************)
(* Model of blackbox_model.py (slowllama): the manual forward/backward     *)
(* loop of Transformer (manual_loop, backprop_w_lora), LoRA.forward and    *)
(* repeat_kv.                                                              *)
(*                                                                         *)
(* Tensors are abstracted by what the properties need:                     *)
(*  - an activation is the sequence of stochastic stages that produced it, *)
(*    each stage naming the unit that ran and the global RNG state it      *)
(*    started from (two activations are equal iff the same units ran from  *)
(*    the same RNG states on the same input);                              *)
(*  - a gradient is the sequence of units it was back-propagated through;  *)
(*  - the global RNG state is the number of random numbers drawn so far    *)
(*    (seed offset included), so a save is a copy and a restore an         *)
(*    assignment.                                                          *)
(***************************************************************************)
EXTENDS Integers, Sequences, FiniteSets, TLC

\* ---------------------------------------------------------------- bounds
MaxLayers == 3
MaxDraws == 2
MaxSeed == 1
\* LoRA.forward: in/out features of the adapted Linear, adapter rank, alpha
LoraDim == 2
MaxRank == 1
MaxAlpha == 2
\* repeat_kv: the shape of x, n_rep, and the first label of x's elements
MaxBs == 2
MaxSeq == 2
MaxKvHeads == 2
MaxHeadDim == 2
MaxRep == 3
MaxOffset == 1

VARIABLES
    \* --- Transformer.manual_loop / backprop_w_lora
    n_layers,       \* params.n_layers
    draws,          \* random numbers one forward of layer k consumes (dropout)
    emb_draws,      \* random numbers self.dropout(embd_out) consumes
    pc,             \* position in manual_loop
    rng,            \* the device's global random-number-generator state
    rng_before,     \* list rng_before of manual_loop
    idx,            \* index of the layer the running loop is at
    current,        \* local current of manual_loop
    cache,          \* inputs saved by the offloadable wrappers on forward
    loaded,         \* modules held by backprop_w_lora frames: unit -> requires_grad of its parameters
    norm,           \* the resident final RMSNorm: module attribute and parameter flag
    grads,          \* owners of parameters whose .grad is populated
    bp,             \* the frame of the running backprop_w_lora call
    logits_grad,    \* logits.grad
    norm_out_grad,  \* local norm_out_grad
    last_grad,      \* local last_grad
    err,            \* the exception that left manual_loop, or "none"
    result,         \* what manual_loop returned, or "none"
    log,            \* history of the operations performed, in order
    \* --- LoRA.forward
    lpc, lrank, lalpha, lx, lA, lB, lmask, ly,
    \* --- repeat_kv
    kpc, kshape, kn_rep, kx, ky

mvars == <<n_layers, draws, emb_draws, pc, rng, rng_before, idx, current, cache,
           loaded, norm, grads, bp, logits_grad, norm_out_grad, last_grad, err,
           result, log>>
lvars == <<lpc, lrank, lalpha, lx, lA, lB, lmask, ly>>
kvars == <<kpc, kshape, kn_rep, kx, ky>>
vars == <<mvars, lvars, kvars>>

\* ------------------------------------------------------------------ units
Layer(k) == [kind |-> "layer", id |-> k]
Lora(k) == [kind |-> "lora", id |-> k]
EmbUnit == [kind |-> "tok_embeddings", id |-> 0]
NormUnit == [kind |-> "norm", id |-> 0]
OutputUnit == [kind |-> "output", id |-> 0]
LossUnit == [kind |-> "loss", id |-> 0]

Layers == {Layer(k) : k \in 0 .. n_layers - 1}
Loras == {Lora(k) : k \in 0 .. n_layers - 1}
\* every owner of base-model parameters
BaseUnits == Layers \cup {EmbUnit, NormUnit, OutputUnit}

\* one stage of an activation: unit u ran from RNG state r
Stage(u, r) == [u |-> u, r |-> r]
\* a tensor that was never assigned / Python's None
None == <<>>

Ev(op, u, pre, post, val) == [op |-> op, unit |-> u, pre |-> pre, post |-> post, val |-> val]

NoFrame == [unit |-> EmbUnit, output_grad |-> None, args |-> {}, input |-> None,
            input_rg |-> FALSE, output |-> None, ret |-> None, caller |-> "none"]

\* ------------------------------------------------------- pure components
\* TransformerBlock.forward on input x, started at RNG state r: the result
\* depends on the block, its input and the dropout masks drawn from r on.
LayerForward(k, x, r) == Append(x, Stage(Layer(k), r))
\* the RNG state after one forward of layer k started at r
RngAfterLayer(k, r) == r + draws[k]
\* RMSNorm.forward and the output Linear draw no random numbers (RNG field 0)
NormForward(x) == Append(x, Stage(NormUnit, 0))
OutputForward(x) == Append(x, Stage(OutputUnit, 0))
\* gradient with respect to the input of unit u, given the gradient g of its output
InputGrad(u, g) == Append(g, u)

\* --- the collaborators manual_loop imports (blackbox.wrap_blackbox, utils)
\* save_rng_state(device): an opaque token holding the current state
save_rng_state(r) == r
\* restore_rng_state(token, device): the state the token holds
restore_rng_state(token) == token
\* the wrapper's forward keeps the input it was called with, for load_input
SaveInput(c, u, x, is_float) == (u :> [val |-> x, is_float |-> is_float]) @@ c
\* wrapper.load(device): a fresh copy of the module, whose parameters have
\* requires_grad set
LoadModule(ld, u) == (u :> TRUE) @@ ld

\* autograd: tensor.backward() populates .grad of exactly the leaf parameters
\* of the graph whose requires_grad flag is set
ParamRequiresGrad(o) ==
    IF o.kind = "lora" THEN TRUE
    ELSE IF o = NormUnit THEN norm.weight_requires_grad
    ELSE loaded[o]
Accumulate(owners) == {o \in owners : ParamRequiresGrad(o)}

\* the run's configuration and the state right after Transformer.__init__
MInit ==
    /\ n_layers \in 1 .. MaxLayers
    /\ draws \in [0 .. n_layers - 1 -> 0 .. MaxDraws]
    /\ emb_draws \in 0 .. MaxDraws
    /\ rng \in 0 .. MaxSeed
    /\ pc = "embed"
    /\ rng_before = <<>>
    /\ idx = 0
    /\ current = None
    /\ cache = <<>>
    /\ loaded = <<>>
    /\ norm = [module_requires_grad |-> FALSE, weight_requires_grad |-> TRUE]
    /\ grads = {}
    /\ bp = NoFrame
    /\ logits_grad = None
    /\ norm_out_grad = None
    /\ last_grad = None
    /\ err = "none"
    /\ result = "none"
    /\ log = <<>>

\* ------------------------------------------------------------ manual_loop
\* what no step of manual_loop changes: the configuration, and the variables of
\* the other components
Fixed == <<n_layers, draws, emb_draws, lvars, kvars>>

\* an exception raised inside manual_loop: neither backprop_w_lora nor
\* manual_loop has a handler, so it leaves the invocation
\* (variant: a handler around the replay that drops the error and goes on to return)
SwallowError(e) ==
    /\ pc' = "return"
    /\ err' = e
    /\ bp' = NoFrame
    /\ UNCHANGED <<Fixed, rng, rng_before, idx, current, cache, loaded, norm, grads,
                   logits_grad, norm_out_grad, last_grad, result, log>>
Raise(e) ==
    /\ pc' = "aborted"
    /\ err' = e
    /\ UNCHANGED <<Fixed, rng, rng_before, idx, current, cache, loaded, norm, grads,
                   bp, logits_grad, norm_out_grad, last_grad, result, log>>

\* lines 330-339: embedding lookup (the wrapper saves its input), detach, dropout
Embed ==
    /\ pc = "embed"
    /\ cache' = SaveInput(cache, EmbUnit, None, FALSE)
    /\ current' = <<Stage(EmbUnit, rng)>>
    /\ rng' = rng + emb_draws
    /\ log' = Append(log, Ev("dropout", EmbUnit, rng, rng', current'))
    /\ pc' = "fwd_save"
    /\ UNCHANGED <<Fixed, rng_before, idx, loaded, norm, grads, bp, logits_grad,
                   norm_out_grad, last_grad, err, result>>

\* line 343: rng_before.append(save_rng_state(device))
FwdSave ==
    /\ pc = "fwd_save"
    /\ rng_before' = Append(rng_before, save_rng_state(rng))
    /\ log' = Append(log, Ev("save", Layer(idx), rng, rng, None))
    /\ pc' = "fwd_layer"
    /\ UNCHANGED <<Fixed, rng, idx, current, cache, loaded, norm, grads, bp,
                   logits_grad, norm_out_grad, last_grad, err, result>>

\* line 344: current = layer(current, ...); the wrapper saves the input
FwdLayer ==
    /\ pc = "fwd_layer"
    /\ cache' = SaveInput(cache, Layer(idx), current, TRUE)
    /\ current' = LayerForward(idx, current, rng)
    /\ rng' = RngAfterLayer(idx, rng)
    /\ log' = Append(log, Ev("forward", Layer(idx), rng, rng', current'))
    /\ idx' = idx + 1
    /\ pc' = IF idx + 1 < n_layers THEN "fwd_save" ELSE "tail"
    /\ UNCHANGED <<Fixed, rng_before, loaded, norm, grads, bp, logits_grad,
                   norm_out_grad, last_grad, err, result>>

\* lines 346-360: detach, final norm, output projection (the wrapper saves
\* norm_out), loss, loss.backward(): the graph of loss ends at the detached
\* logits, so only logits.grad is populated
ResidentTail ==
    /\ pc = "tail"
    /\ cache' = SaveInput(cache, OutputUnit, NormForward(current), TRUE)
    /\ logits_grad' = <<LossUnit>>
    /\ log' = Append(log, Ev("loss_backward", LossUnit, rng, rng, logits_grad'))
    /\ pc' = "call_output"
    /\ UNCHANGED <<Fixed, rng, rng_before, idx, current, loaded, norm, grads, bp,
                   norm_out_grad, last_grad, err, result>>

\* line 362: norm_out_grad = self.backprop_w_lora(self.output, logits.grad)
\* (variant: the replay of the output projection skipped)
CallOutputSkipped ==
    /\ pc = "call_output"
    /\ norm_out_grad' = InputGrad(OutputUnit, logits_grad)
    /\ pc' = "norm2"
    /\ UNCHANGED <<Fixed, rng, rng_before, idx, current, cache, loaded, norm, grads,
                   bp, logits_grad, last_grad, err, result, log>>
CallOutput ==
    /\ pc = "call_output"
    /\ bp' = [NoFrame EXCEPT !.unit = OutputUnit, !.output_grad = logits_grad,
                             !.args = {}, !.caller = "output"]
    /\ pc' = "bp_load"
    /\ UNCHANGED <<Fixed, rng, rng_before, idx, current, cache, loaded, norm, grads,
                   logits_grad, norm_out_grad, last_grad, err, result, log>>

\* line 307: module = blackbox_module.load(device); a freshly loaded module's
\* parameters have requires_grad set
\* (variant: the requires_grad loop of lines 311-312 left out)
BpLoadNoFreeze ==
    /\ pc = "bp_load"
    /\ \E ok \in BOOLEAN :
        IF ok
        THEN /\ loaded' = LoadModule(loaded, bp.unit)
             /\ log' = Append(log, Ev("load", bp.unit, rng, rng, None))
             /\ pc' = "bp_input"
             /\ UNCHANGED <<Fixed, rng, rng_before, idx, current, cache, norm, grads,
                            bp, logits_grad, norm_out_grad, last_grad, err, result>>
        ELSE Raise("StorageMissing")
BpLoad ==
    /\ pc = "bp_load"
    /\ \E ok \in BOOLEAN :
        IF ok
        THEN /\ loaded' = LoadModule(loaded, bp.unit)
             /\ log' = Append(log, Ev("load", bp.unit, rng, rng, None))
             /\ pc' = "bp_freeze"
             /\ UNCHANGED <<Fixed, rng, rng_before, idx, current, cache, norm, grads,
                            bp, logits_grad, norm_out_grad, last_grad, err, result>>
        ELSE Raise("StorageMissing")

\* lines 311-312: for param in module.parameters(): param.requires_grad = False
BpFreeze ==
    /\ pc = "bp_freeze"
    /\ loaded' = [loaded EXCEPT ![bp.unit] = FALSE]
    /\ log' = Append(log, Ev("freeze", bp.unit, rng, rng, None))
    /\ pc' = "bp_input"
    /\ UNCHANGED <<Fixed, rng, rng_before, idx, current, cache, norm, grads, bp,
                   logits_grad, norm_out_grad, last_grad, err, result>>

\* lines 314-319: input = blackbox_module.load_input(device); a floating-point
\* input becomes a gradient root
BpLoadInput ==
    /\ pc = "bp_input"
    /\ \E ok \in BOOLEAN :
        IF ok /\ bp.unit \in DOMAIN cache
        THEN /\ bp' = [bp EXCEPT !.input = cache[bp.unit].val,
                                 !.input_rg = cache[bp.unit].is_float]
             /\ log' = Append(log, Ev("load_input", bp.unit, rng, rng, cache[bp.unit].val))
             /\ pc' = "bp_recompute"
             /\ UNCHANGED <<Fixed, rng, rng_before, idx, current, cache, loaded, norm,
                            grads, logits_grad, norm_out_grad, last_grad, err, result>>
        ELSE Raise("CacheMiss")

\* line 321: output = module(input, *args)
\* (variant: the recomputation draws no random numbers, as in eval mode)
BpRecomputeEval ==
    /\ pc = "bp_recompute"
    /\ bp' = [bp EXCEPT !.output = IF bp.unit.kind = "layer"
                                   THEN LayerForward(bp.unit.id, bp.input, rng)
                                   ELSE OutputForward(bp.input)]
    /\ rng' = rng
    /\ log' = Append(log, Ev("recompute", bp.unit, rng, rng', bp'.output))
    /\ pc' = "bp_backward"
    /\ UNCHANGED <<Fixed, rng_before, idx, current, cache, loaded, norm, grads,
                   logits_grad, norm_out_grad, last_grad, err, result>>
BpRecompute ==
    /\ pc = "bp_recompute"
    /\ bp' = [bp EXCEPT !.output = IF bp.unit.kind = "layer"
                                   THEN LayerForward(bp.unit.id, bp.input, rng)
                                   ELSE OutputForward(bp.input)]
    /\ rng' = IF bp.unit.kind = "layer" THEN RngAfterLayer(bp.unit.id, rng) ELSE rng
    /\ log' = Append(log, Ev("recompute", bp.unit, rng, rng', bp'.output))
    /\ pc' = "bp_backward"
    /\ UNCHANGED <<Fixed, rng_before, idx, current, cache, loaded, norm, grads,
                   logits_grad, norm_out_grad, last_grad, err, result>>

\* line 322: output.backward(output_grad): gradients reach the module's
\* parameters, the adapters passed in *args, and the input
BpBackward ==
    /\ pc = "bp_backward"
    /\ grads' = grads \cup Accumulate({bp.unit} \cup bp.args)
    /\ bp' = [bp EXCEPT !.ret = IF bp.input_rg THEN InputGrad(bp.unit, bp.output_grad)
                                ELSE None]
    /\ log' = Append(log, Ev("backward", bp.unit, rng, rng, bp.output_grad))
    /\ pc' = "bp_return"
    /\ UNCHANGED <<Fixed, rng, rng_before, idx, current, cache, loaded, norm,
                   logits_grad, norm_out_grad, last_grad, err, result>>

\* line 324: the frame ends, and with it the only reference to module
\* (variant: a reference to module outlives the call)
KeepLoaded(ld, u) == ld
Release(ld, u) == [v \in DOMAIN ld \ {u} |-> ld[v]]

\* line 324 and the assignment at the call site (line 362 or line 371)
BpReturn ==
    /\ pc = "bp_return"
    /\ loaded' = Release(loaded, bp.unit)
    /\ bp' = NoFrame
    /\ log' = Append(log, Ev("release", bp.unit, rng, rng, bp.ret))
    /\ IF bp.caller = "output"
       THEN /\ norm_out_grad' = bp.ret
            /\ pc' = "norm2"
            /\ UNCHANGED <<last_grad, idx>>
       ELSE /\ last_grad' = bp.ret
            /\ idx' = idx - 1
            /\ pc' = IF idx > 0 THEN "rev_restore" ELSE "return"
            /\ UNCHANGED norm_out_grad
    /\ UNCHANGED <<Fixed, rng, rng_before, current, cache, norm, grads, logits_grad,
                   err, result>>

\* lines 364-367: norm_out2 = self.norm(current); norm_out2.backward(norm_out_grad);
\* last_grad = current.grad
Norm2 ==
    /\ pc = "norm2"
    /\ grads' = grads \cup Accumulate({NormUnit})
    /\ last_grad' = InputGrad(NormUnit, norm_out_grad)
    /\ log' = Append(log, Ev("norm_backward", NormUnit, rng, rng, norm_out_grad))
    /\ idx' = n_layers - 1
    /\ pc' = "rev_restore"
    /\ UNCHANGED <<Fixed, rng, rng_before, current, cache, loaded, norm, bp,
                   logits_grad, norm_out_grad, err, result>>

\* line 369: zip(reversed(self.layers), reversed(rng_before), reversed(self.lora_layers))
\* (variants: rng_before, or self.lora_layers, zipped without reversed)
SnapshotUnreversed(i) == rng_before[n_layers - i]
SnapshotFor(i) == rng_before[i + 1]
LoraUnreversed(i) == Lora(n_layers - 1 - i)
LoraFor(i) == Lora(i)

\* lines 370-371: restore_rng_state(rng_state, device=device), then the call
\* of backprop_w_lora for the layer
RevRestore ==
    /\ pc = "rev_restore"
    /\ \E ok \in BOOLEAN :
        IF ok
        THEN /\ rng' = restore_rng_state(SnapshotFor(idx))
             /\ bp' = [NoFrame EXCEPT !.unit = Layer(idx), !.output_grad = last_grad,
                                      !.args = {LoraFor(idx)}, !.caller = "layer"]
             /\ log' = Append(log, Ev("restore", Layer(idx), rng, rng', None))
             /\ pc' = "bp_load"
             /\ UNCHANGED <<Fixed, rng_before, idx, current, cache, loaded, norm, grads,
                            logits_grad, norm_out_grad, last_grad, err, result>>
        ELSE Raise("StateFormatMismatch")

\* line 373: return logits, loss.item()
Return ==
    /\ pc = "return"
    /\ result' = "logits_loss"
    /\ pc' = "done"
    /\ UNCHANGED <<Fixed, rng, rng_before, idx, current, cache, loaded, norm, grads,
                   bp, logits_grad, norm_out_grad, last_grad, err, log>>


\* ------------------------------------------------------------ LoRA.forward
\* Vectors are sequences of integers; a weight matrix is the sequence of its
\* rows (nn.Linear.weight is [out_features, in_features]). A result element
\* is a fraction num/den, since scale = alpha / rank is a true division.
RECURSIVE SumTo(_, _)
SumTo(f, n) == IF n = 0 THEN 0 ELSE f[n] + SumTo(f, n - 1)
Dot(a, b) == SumTo([c \in 1 .. Len(a) |-> a[c] * b[c]], Len(a))
\* nn.Linear without bias: y = x W^T
Linear(W, x) == [r \in 1 .. Len(W) |-> Dot(W[r], x)]
\* nn.Dropout in training: every element is multiplied by its mask entry,
\* which is 0 (dropped) or 1/(1-p) (kept)
Dropout(v, mask) == [c \in 1 .. Len(v) |-> v[c] * mask[c]]
\* v * self.scale, with self.scale = alpha / rank (line 235)
Scaled(v, alpha, rank) == [c \in 1 .. Len(v) |-> [num |-> v[c] * alpha, den |-> rank]]

\* line 243: self.dropout(self.B(self.A(x))) * self.scale
\* (variant: the mask applied to x, as in B(A(dropout(x))) * scale)
LoRAForwardDropoutOnInput(A, B, alpha, rank, x, mask) ==
    Scaled(Linear(B, Linear(A, Dropout(x, mask))), alpha, rank)
LoRAForward(A, B, alpha, rank, x, mask) ==
    Scaled(Dropout(Linear(B, Linear(A, x)), mask), alpha, rank)

ElemVals == {0, 1}
\* mask entries: 0 for a dropped element, 2 = 1/(1-p) for a kept one (p = 1/2)
MaskVals == {0, 2}
Vec(n, S) == [1 .. n -> S]

\* the adapted Linear is square (wq: dim -> n_heads * head_dim = dim), so x and
\* the result have LoraDim elements each and one mask shape fits both
LInit ==
    /\ lpc = "ready"
    /\ lrank \in 1 .. MaxRank
    /\ lalpha \in 1 .. MaxAlpha
    /\ lx \in Vec(LoraDim, ElemVals)
    /\ lA \in Vec(lrank, Vec(LoraDim, ElemVals))
    /\ lB \in Vec(LoraDim, Vec(lrank, ElemVals))
    /\ lmask \in Vec(LoraDim, MaskVals)
    /\ ly = <<>>

\* one call of LoRA.forward(x) in training mode, the dropout mask being lmask
LoRACall ==
    /\ lpc = "ready"
    /\ ly' = LoRAForward(lA, lB, lalpha, lrank, lx, lmask)
    /\ lpc' = "done"
    /\ UNCHANGED <<lrank, lalpha, lx, lA, lB, lmask, mvars, kvars>>

\* ---------------------------------------------------------------- repeat_kv
\* A tensor is a function on index tuples (0-based); a contiguous tensor's
\* element at an index sits at the row-major linear offset of that index.
KvIndices(sh) ==
    {<<b, t, k, d>> : b \in 0 .. sh.bs - 1, t \in 0 .. sh.slen - 1,
                      k \in 0 .. sh.n_kv_heads - 1, d \in 0 .. sh.head_dim - 1}
\* row-major offset of <<b, t, h, d>> in a tensor of shape [bs, slen, heads, head_dim]
Offset4(sh, heads, i) == ((i[1] * sh.slen + i[2]) * heads + i[3]) * sh.head_dim + i[4]
\* index of the element at row-major offset l in a tensor of shape [bs, slen, n1, n2, head_dim]
Unravel5(sh, n1, n2, l) ==
    LET d == l % sh.head_dim
        q1 == l \div sh.head_dim
        j2 == q1 % n2
        q2 == q1 \div n2
        j1 == q2 % n1
        q3 == q2 \div n1
    IN  <<q3 \div sh.slen, q3 % sh.slen, j1, j2, d>>

\* x[:, :, None, :, :].expand(bs, slen, n_rep, n_kv_heads, head_dim).reshape(...):
\* the copies are laid out copy after copy (torch.Tensor.repeat along the head axis)
repeat_kv_tiled(x, sh, n_rep) ==
    [shape |-> [sh EXCEPT !.n_kv_heads = sh.n_kv_heads * n_rep],
     data |-> [i \in KvIndices([sh EXCEPT !.n_kv_heads = sh.n_kv_heads * n_rep]) |->
                 LET j == Unravel5(sh, n_rep, sh.n_kv_heads,
                                   Offset4(sh, sh.n_kv_heads * n_rep, i))
                 IN  x[<<j[1], j[2], j[4], j[5]>>]]]
\* lines 97-106: x when n_rep = 1, else x[:, :, :, None, :] expanded to
\* [bs, slen, n_kv_heads, n_rep, head_dim] (element <<b, t, k, r, d>> is
\* x[b, t, k, d]) and reshaped to [bs, slen, n_kv_heads * n_rep, head_dim]
\* (a reshape keeps every element at its row-major offset)
repeat_kv(x, sh, n_rep) ==
    IF n_rep = 1
    THEN [shape |-> sh, data |-> x]
    ELSE [shape |-> [sh EXCEPT !.n_kv_heads = sh.n_kv_heads * n_rep],
          data |-> [i \in KvIndices([sh EXCEPT !.n_kv_heads = sh.n_kv_heads * n_rep]) |->
                      LET j == Unravel5(sh, sh.n_kv_heads, n_rep,
                                        Offset4(sh, sh.n_kv_heads * n_rep, i))
                      IN  x[<<j[1], j[2], j[3], j[5]>>]]]

KShapes ==
    [bs : 1 .. MaxBs, slen : 1 .. MaxSeq, n_kv_heads : 1 .. MaxKvHeads,
     head_dim : 1 .. MaxHeadDim]

\* x holds pairwise distinct labels, so that the result shows where each of
\* its elements was taken from
KInit ==
    /\ kpc = "ready"
    /\ kshape \in KShapes
    /\ kn_rep \in 1 .. MaxRep
    /\ \E off \in 0 .. MaxOffset :
          kx = [i \in KvIndices(kshape) |-> off + Offset4(kshape, kshape.n_kv_heads, i)]
    /\ ky = <<>>

\* one call xk = repeat_kv(xk, self.n_rep) (lines 159-160)
RepeatKvCall ==
    /\ kpc = "ready"
    /\ ky' = repeat_kv(kx, kshape, kn_rep)
    /\ kpc' = "done"
    /\ UNCHANGED <<kshape, kn_rep, kx, mvars, lvars>>

\* idle values of the variables another specification owns
LIdle ==
    /\ lpc = "idle" /\ lrank = 1 /\ lalpha = 1
    /\ lx = <<>> /\ lA = <<>> /\ lB = <<>> /\ lmask = <<>> /\ ly = <<>>
KIdle ==
    /\ kpc = "idle" /\ kshape = <<>> /\ kn_rep = 1 /\ kx = <<>> /\ ky = <<>>

Init == MInit /\ LIdle /\ KIdle
Next ==
    \/ Embed \/ FwdSave \/ FwdLayer \/ ResidentTail \/ CallOutput
    \/ BpLoad \/ BpFreeze \/ BpLoadInput \/ BpRecompute \/ BpBackward \/ BpReturn
    \/ Norm2 \/ RevRestore \/ Return
Spec == Init /\ [][Next]_vars

\* manual_loop has not been called (the other specifications)
MIdle ==
    /\ n_layers = 1 /\ draws = <<>> /\ emb_draws = 0 /\ rng = 0
    /\ pc = "idle" /\ rng_before = <<>> /\ idx = 0 /\ current = None
    /\ cache = <<>> /\ loaded = <<>>
    /\ norm = [module_requires_grad |-> FALSE, weight_requires_grad |-> TRUE]
    /\ grads = {} /\ bp = NoFrame /\ logits_grad = None /\ norm_out_grad = None
    /\ last_grad = None /\ err = "none" /\ result = "none" /\ log = <<>>

InitLoRA == MIdle /\ LInit /\ KIdle
NextLoRA == LoRACall
SpecLoRA == InitLoRA /\ [][NextLoRA]_vars

InitRepeatKv == MIdle /\ LIdle /\ KInit
NextRepeatKv == RepeatKvCall
SpecRepeatKv == InitRepeatKv /\ [][NextRepeatKv]_vars

\* ------------------------------------------------- properties of manual_loop
\* positions in the history of the operation op on unit u
EvIdx(op, u) == {j \in DOMAIN log : log[j].op = op /\ log[j].unit = u}
Only(S) == CHOOSE j \in S : TRUE
IsLayerEv(j) == log[j].unit.kind = "layer"
\* the global RNG state right after layer k's forward computation in the forward pass
PostFwd(k) == log[Only(EvIdx("forward", Layer(k)))].post
\* the gradient with respect to the last layer's output
TailGrad == <<LossUnit, OutputUnit, NormUnit>>

\* C1 (the claim as stated): after a complete manual_loop no base-model
\* parameter (embedding, layers, final RMSNorm, output projection) holds a
\* gradient, and the LoRA weights are the only parameters with a gradient.
C1_NoBaseGradAfterLoop ==
    pc = "done" => /\ grads \cap BaseUnits = {}
                   /\ grads \subseteq Loras
                   /\ norm.weight_requires_grad = FALSE

\* C2 (the claim as stated): in each per-layer step of the reverse pass the
\* order is load, freeze, load_input, restore RNG, recompute, backward.
C2_RestoreAfterLoads ==
    \A j \in DOMAIN log :
        (IsLayerEv(j) /\ log[j].op = "recompute") =>
            /\ j > 4
            /\ log[j - 1].op = "restore" /\ log[j - 1].unit = log[j].unit
            /\ log[j - 2].op = "load_input" /\ log[j - 2].unit = log[j].unit
            /\ log[j - 3].op = "freeze" /\ log[j - 3].unit = log[j].unit
            /\ log[j - 4].op = "load" /\ log[j - 4].unit = log[j].unit

\* the operation that directly precedes op in one per-layer replay step
PrevOp(op) ==
    CASE op = "load" -> "restore"
      [] op = "freeze" -> "load"
      [] op = "load_input" -> "freeze"
      [] op = "recompute" -> "load_input"
      [] op = "backward" -> "recompute"
      [] op = "release" -> "backward"

\* C2 (amended): in each per-layer step of the reverse pass the order is
\* restore RNG, load, freeze, load_input, recompute, backward: the RNG
\* restore comes first, before the parameter load and the input load, and
\* nothing else happens between two consecutive operations of the step.
C2_ReplayStepOrder ==
    \A j \in DOMAIN log :
        (IsLayerEv(j) /\ log[j].op \in {"load", "freeze", "load_input", "recompute",
                                         "backward", "release"}) =>
            /\ j > 1
            /\ log[j - 1].op = PrevOp(log[j].op)
            /\ log[j - 1].unit = log[j].unit
C2_Witness ==
    /\ pc = "done" /\ n_layers >= 2
    /\ \A k \in 0 .. n_layers - 1 : EvIdx("backward", Layer(k)) # {}

\* C3: the RNG state at the moment layer i's forward is re-run in the reverse
\* pass is the state at the moment its forward started in the forward pass,
\* and the recomputed output is the original output.
C3_ReplayRngEqualsForward ==
    \A j \in DOMAIN log :
        (IsLayerEv(j) /\ log[j].op = "recompute") =>
            \E f \in EvIdx("forward", log[j].unit) :
                /\ f < j
                /\ log[f].pre = log[j].pre
                /\ log[f].val = log[j].val
                /\ log[f].post = log[j].post
C3_Witness ==
    /\ n_layers >= 2
    /\ \A k \in 0 .. n_layers - 1 : draws[k] > 0
    /\ EvIdx("recompute", Layer(0)) # {}

\* C4: at every instant at most one offloadable unit's parameters are held
\* loaded by backprop_w_lora, and the module of one call is released before
\* the next call loads another.
C4_AtMostOneLoaded ==
    /\ Cardinality(DOMAIN loaded) <= 1
    /\ pc \in {"bp_load", "norm2", "rev_restore", "return", "done"} => DOMAIN loaded = {}
    /\ DOMAIN loaded # {} => DOMAIN loaded = {bp.unit}
C4_Witness ==
    /\ n_layers >= 2
    /\ DOMAIN loaded = {Layer(0)}
    /\ EvIdx("release", OutputUnit) # {}
    /\ EvIdx("release", Layer(1)) # {}

\* C5 (the claim as stated): the output projection is never loaded from the
\* offload manager nor recomputed by the load/replay procedure.
C5_OutputNeverReplayed ==
    \A j \in DOMAIN log :
        log[j].unit = OutputUnit => log[j].op \notin {"load", "load_input", "recompute"}

\* C5 (amended): the final normalization stays resident and is never loaded,
\* but the output projection is an offloadable unit that backprop_w_lora
\* loads, freezes and recomputes exactly once, after loss.backward() and
\* before the backward through the final normalization and before any layer is
\* replayed; the gradient with respect to the last layer's output is the
\* gradient of the loss passed back through that replay and then through the
\* recomputed final normalization.
C5_OutputReplayedOnce ==
    /\ \A j \in DOMAIN log : log[j].unit = NormUnit => log[j].op = "norm_backward"
    /\ (pc = "norm2" \/ EvIdx("norm_backward", NormUnit) # {} \/ EvIdx("restore", Layer(n_layers - 1)) # {}) =>
          /\ \A op \in {"load", "freeze", "load_input", "recompute", "backward", "release"} :
                Cardinality(EvIdx(op, OutputUnit)) = 1
          /\ Only(EvIdx("loss_backward", LossUnit)) + 1 = Only(EvIdx("load", OutputUnit))
          /\ \A j \in DOMAIN log :
                (IsLayerEv(j) /\ log[j].op \in {"restore", "load", "recompute"}) =>
                    j > Only(EvIdx("release", OutputUnit))
          /\ norm_out_grad = <<LossUnit, OutputUnit>>
    /\ EvIdx("norm_backward", NormUnit) # {} =>
          /\ Only(EvIdx("norm_backward", NormUnit)) = Only(EvIdx("release", OutputUnit)) + 1
          /\ \A j \in EvIdx("backward", Layer(n_layers - 1)) : log[j].val = TailGrad
C5_Witness ==
    /\ pc = "done"
    /\ EvIdx("recompute", OutputUnit) # {}

\* the layer whose replay step failed (n_layers when the output projection's did)
FailedAt == IF bp.caller = "output" THEN n_layers ELSE idx

\* C6: a failure of the parameter load, the cached-input load or the RNG
\* restore for layer k aborts the invocation with that error: nothing runs
\* afterwards, no layer below k and not layer k itself is replayed, nothing
\* is substituted for what failed, and no result is returned.
C6_FailureAborts ==
    err # "none" =>
        /\ pc = "aborted"
        /\ result = "none"
        /\ ~ ENABLED Next
        /\ \A j \in DOMAIN log :
              (IsLayerEv(j) /\ log[j].op \in {"recompute", "backward"}) =>
                  log[j].unit.id > FailedAt
        /\ \A j \in DOMAIN log : IsLayerEv(j) /\ log[j].op = "restore" =>
              log[j].unit.id >= FailedAt
        /\ err = "StorageMissing" => bp.unit \notin DOMAIN loaded
        /\ err = "CacheMiss" => bp.input = None /\ EvIdx("load_input", bp.unit) = {}
        /\ err = "StateFormatMismatch" => EvIdx("restore", Layer(idx)) = {}
C6_Witness ==
    /\ err = "CacheMiss"
    /\ n_layers = 3 /\ idx = 1
    /\ bp.unit = Layer(1)
    /\ EvIdx("backward", Layer(2)) # {}

\* the layers replayed so far, in the order of their backward
ReplayedBefore(j) == {i \in 1 .. j - 1 : IsLayerEv(i) /\ log[i].op = "backward"}

\* C9: the forward pass saves one RNG snapshot right before each layer, in
\* layer order (N in all); the reverse pass replays the layers N-1, ..., 0,
\* each once, layer i with the snapshot taken before layer i, with layer i's
\* adapter pair, and with the input gradient of the replay of layer i+1 as
\* its incoming gradient (for N-1: the gradient of the final norm's input).
C9_ReverseReplay ==
    /\ Len(rng_before) = Cardinality({j \in DOMAIN log : log[j].op = "save"})
    /\ \A k \in 0 .. n_layers - 1 :
          /\ Cardinality(EvIdx("forward", Layer(k))) <= 1
          /\ \A f \in EvIdx("forward", Layer(k)) :
                /\ Len(rng_before) > k
                /\ rng_before[k + 1] = log[f].pre
                /\ f > 1 /\ log[f - 1].op = "save" /\ log[f - 1].unit = Layer(k)
    /\ pc \notin {"embed", "fwd_save", "fwd_layer"} => Len(rng_before) = n_layers
    /\ \A j \in DOMAIN log :
          (IsLayerEv(j) /\ log[j].op = "backward") =>
              /\ Cardinality(ReplayedBefore(j)) = n_layers - 1 - log[j].unit.id
              /\ \A r \in EvIdx("restore", log[j].unit) :
                    log[r].post = rng_before[log[j].unit.id + 1]
              /\ log[j].val = IF log[j].unit.id = n_layers - 1
                              THEN TailGrad
                              ELSE log[Only(EvIdx("release", Layer(log[j].unit.id + 1)))].val
    /\ (bp.caller = "layer") => bp.unit = Layer(idx) /\ bp.args = {Lora(idx)}
    /\ pc \in {"return", "done"} =>
          \A k \in 0 .. n_layers - 1 :
              /\ Cardinality(EvIdx("backward", Layer(k))) = 1
              /\ Cardinality(EvIdx("recompute", Layer(k))) = 1
              /\ Lora(k) \in grads
C9_Witness ==
    /\ pc = "done" /\ n_layers = 3
    /\ Only(EvIdx("backward", Layer(2))) < Only(EvIdx("backward", Layer(1)))
    /\ Only(EvIdx("backward", Layer(1))) < Only(EvIdx("backward", Layer(0)))

\* C10 (the claim as stated): when manual_loop returns the global RNG state
\* is the state right after layer 0's forward in the forward pass, and it is
\* not the state at the end of the forward pass.
C10_RngAfterLayer0NotEnd ==
    pc = "done" => /\ rng = PostFwd(0)
                   /\ rng # PostFwd(n_layers - 1)

\* C10 (amended): when manual_loop returns the global RNG state is the state
\* right after layer 0's forward in the forward pass; it differs from the
\* state at the end of the forward pass exactly when some layer 1 .. N-1
\* drew random numbers in the forward pass, so never when N = 1.
C10_RngAfterLayer0 ==
    pc = "done" => /\ rng = PostFwd(0)
                   /\ rng = rng_before[1] + draws[0]
                   /\ (rng # PostFwd(n_layers - 1)) <=> (\E k \in 1 .. n_layers - 1 : draws[k] > 0)
C10_Witness ==
    /\ pc = "done" /\ n_layers >= 2
    /\ draws[0] > 0 /\ draws[n_layers - 1] > 0
    /\ rng # PostFwd(n_layers - 1)

\* ------------------------------------------------- properties of LoRA.forward
\* sum over r and c of B[i][r] * A[r][c] * w[c]
BAx(i, w) ==
    SumTo([r \in 1 .. lrank |->
              SumTo([c \in 1 .. LoraDim |-> lB[i][r] * lA[r][c] * w[c]], LoraDim)],
          lrank)

\* C7 (the claim as stated): LoRA.forward(x) = scale * up(down(dropout(x))),
\* scale = alpha / rank: the mask is applied to x, before the down-projection.
C7_DropoutOnInput ==
    lpc = "done" =>
        \A i \in 1 .. LoraDim :
            ly[i].num * lrank = lalpha * BAx(i, [c \in 1 .. LoraDim |-> lx[c] * lmask[c]]) * ly[i].den

\* C7 (amended): LoRA.forward(x) = scale * dropout(up(down(x))), scale =
\* alpha / rank: the mask is applied to the result of the up-projection B,
\* not to the input x.
C7_DropoutOnOutput ==
    lpc = "done" =>
        /\ DOMAIN ly = 1 .. LoraDim
        /\ \A i \in 1 .. LoraDim :
              /\ ly[i].den # 0
              /\ ly[i].num * lrank = lalpha * lmask[i] * BAx(i, lx) * ly[i].den
C7_Witness ==
    /\ lpc = "done"
    /\ \E i, c \in 1 .. LoraDim : lmask[i] = 0 /\ lmask[c] # 0 /\ ly[c].num # 0 /\ BAx(i, lx) # 0

\* --------------------------------------------------- properties of repeat_kv
\* C8: repeat_kv(x, n_rep) has n_kv_heads * n_rep heads, its slice at head h
\* is x's slice at head h \div n_rep, and it is x itself when n_rep = 1.
C8_RepeatInterleave ==
    kpc = "done" =>
        /\ ky.shape = [kshape EXCEPT !.n_kv_heads = kshape.n_kv_heads * kn_rep]
        /\ DOMAIN ky.data = KvIndices(ky.shape)
        /\ \A b \in 0 .. kshape.bs - 1, t \in 0 .. kshape.slen - 1,
              h \in 0 .. kshape.n_kv_heads * kn_rep - 1, d \in 0 .. kshape.head_dim - 1 :
                ky.data[<<b, t, h, d>>] = kx[<<b, t, h \div kn_rep, d>>]
        /\ kn_rep = 1 => ky.data = kx
C8_Witness ==
    /\ kpc = "done"
    /\ kn_rep >= 2 /\ kshape.n_kv_heads >= 2 /\ kshape.head_dim >= 2
    /\ kshape.slen >= 2 /\ kshape.bs >= 2
    /\ ky.data[<<1, 1, kn_rep, 1>>] = kx[<<1, 1, 1, 1>>]

====
